---- MODULE Spec2Model ----
(***************************************************************************)
(* The routing backend (Express handlers over a PostgreSQL pool) and the   *)
(* two materialized views it refreshes.  A request is a handler instance;  *)
(* every awaited client.query is one step.  The database is PostgreSQL at  *)
(* its default isolation level (READ COMMITTED): a statement sees the rows *)
(* committed when it starts plus the rows of its own transaction, DELETE   *)
(* waits on rows locked by an open transaction, REFRESH MATERIALIZED VIEW  *)
(* holds an exclusive lock on the view until its transaction ends.         *)
(***************************************************************************)
EXTENDS Integers, Sequences, FiniteSets, TLC

VARIABLES pc, req, xact, points, seq, mv, snap, client, resp, released,
          network_nodes, network_edges, grid_lines, stage, found, snapped,
          routeInfo, loading, start, end, selecting, selectingRef, calls

vars == <<pc, req, xact, points, seq, mv, snap, client, resp, released,
          network_nodes, network_edges, grid_lines, stage, found, snapped,
          routeInfo, loading, start, end, selecting, selectingRef, calls>>

\* What the handlers never write: the road lines and the graph built from them (the
\* pipeline runs before the server starts), and what a query run by hand has returned.
offline == <<network_nodes, network_edges, grid_lines, stage, found, snapped>>

\* The state of the map page in the browser (FrontendMap) and its calls of
\* sendRouteRequest.
frontend == <<routeInfo, loading, start, end, selecting, selectingRef, calls>>

\* Number of requests the server receives in a run (each one handler instance).
NumReq == 2

Req == 1..NumReq

(***************************************************************************)
(* The routable graph (network_nodes, network_edges).  Coordinates are in  *)
(* hundredths of a degree, costs in hundredths of a kilometre (the cost    *)
(* column is rounded to 2 decimals): one hundredth of a degree is 1.11 km. *)
(* Node 4 has no edge: it is not connected to the others.                  *)
(***************************************************************************)
RoadNodes ==
    { [id |-> 1, x |-> 0, y |-> 0],
      [id |-> 2, x |-> 1, y |-> 0],
      [id |-> 3, x |-> 1, y |-> 1],
      [id |-> 4, x |-> 0, y |-> 3] }

RoadEdges ==
    { [id |-> 1, source |-> 1, target |-> 2, cost |-> 111, reverse_cost |-> 111],
      [id |-> 2, source |-> 2, target |-> 3, cost |-> 111, reverse_cost |-> 111],
      [id |-> 3, source |-> 1, target |-> 3, cost |-> 157, reverse_cost |-> 157] }

NodeIds == { n.id : n \in network_nodes }

NodeOf(i) == CHOOSE n \in network_nodes : n.id = i

RECURSIVE SumCost(_)
SumCost(E) ==
    IF E = {} THEN 0
    ELSE LET e == CHOOSE x \in E : TRUE IN e.cost + e.reverse_cost + SumCost(E \ {e})

\* The initial distance label of a vertex: larger than the cost of any path.
Infinity == SumCost(network_edges) + 1

\* SQL NULL geometry, and a point geometry.
NullGeom == <<>>

Point(x, y) == <<x, y>>

\* geom <-> geom: the distance used to order the nodes (squared; the order is the same).
Distance2(n, g) == (n.x - g[1]) * (n.x - g[1]) + (n.y - g[2]) * (n.y - g[2])

(***************************************************************************)
(* source_node / target_node: SELECT id FROM network_nodes                 *)
(* ORDER BY geom <-> (point) LIMIT 1.  The order has no second key: among  *)
(* nodes at the same distance the row returned is the one the scan meets   *)
(* first, which the query does not fix.  When the point is NULL (no row in *)
(* points, or a NULL geometry) the distance is NULL for every node and     *)
(* all of them are at the same place in the order.                         *)
(***************************************************************************)
NearestNodes(g) ==
    IF g = NullGeom THEN NodeIds
    ELSE { i \in NodeIds :
             \A j \in NodeIds : Distance2(NodeOf(i), g) <= Distance2(NodeOf(j), g) }

\* The <<source_node, target_node>> one statement can resolve for the points g1 and g2:
\* its two subqueries scan network_nodes in the same order, so of two nodes that are
\* candidates of both, they return the same one.
SourceTarget(g1, g2) ==
    { st \in NearestNodes(g1) \X NearestNodes(g2) :
        (st[1] \in NearestNodes(g2) /\ st[2] \in NearestNodes(g1)) => st[1] = st[2] }

(***************************************************************************)
(* pgr_dijkstra / pgr_aStar (directed := FALSE), one source, one target.   *)
(* Both are a best-first search over distance labels: the open vertex of   *)
(* least priority is examined, the search stops when that vertex is the    *)
(* target, each edge at the vertex is relaxed in either direction (cost    *)
(* from source to target, reverse_cost from target to source) and a vertex *)
(* whose label improves is (re)opened.  Dijkstra's priority is the label,  *)
(* A*'s is the label plus the heuristic.                                   *)
(***************************************************************************)
\* The largest r in lo..hi with r * r <= n (lo * lo <= n < (hi + 1) * (hi + 1)).
RECURSIVE ISqrtBetween(_, _, _)
ISqrtBetween(n, lo, hi) ==
    IF lo = hi THEN lo
    ELSE LET mid == (lo + hi + 1) \div 2
         IN IF mid * mid <= n THEN ISqrtBetween(n, mid, hi) ELSE ISqrtBetween(n, lo, mid - 1)

Abs(k) == IF k < 0 THEN -k ELSE k

\* pgr_aStar's default heuristic: sqrt(dx * dx + dy * dy) over the x1,y1,x2,y2 columns,
\* in the units of the coordinates (rounded down to the unit).
Heuristic(i, t) ==
    LET a == NodeOf(i)
        b == NodeOf(t)
    IN ISqrtBetween((a.x - b.x) * (a.x - b.x) + (a.y - b.y) * (a.y - b.y),
                    0, Abs(a.x - b.x) + Abs(a.y - b.y))

\* The edges at vertex u as [edge, to, w]: the traversals the undirected graph allows.
Traversals(u) ==
    { [edge |-> e.id, to |-> e.target, w |-> e.cost] : e \in { x \in network_edges : x.source = u } }
    \cup
    { [edge |-> e.id, to |-> e.source, w |-> e.reverse_cost] : e \in { x \in network_edges : x.target = u } }

Priority(label, i, t, astar) == label[i] + (IF astar THEN Heuristic(i, t) ELSE 0)

RECURSIVE SearchFrom(_, _, _, _, _)
SearchFrom(label, pred, open, t, astar) ==
    IF open = {} THEN [label |-> label, pred |-> pred]
    ELSE
      LET u == CHOOSE i \in open :
                 \A j \in open :
                    \/ Priority(label, i, t, astar) < Priority(label, j, t, astar)
                    \/ Priority(label, i, t, astar) = Priority(label, j, t, astar) /\ i <= j
      IN IF u = t THEN [label |-> label, pred |-> pred]
         ELSE
           LET better == { tr \in Traversals(u) : label[u] + tr.w < label[tr.to] }
               best(v) == CHOOSE tr \in better :
                             /\ tr.to = v
                             /\ \A o \in better :
                                   o.to = v =>
                                     \/ tr.w < o.w
                                     \/ tr.w = o.w /\ tr.edge <= o.edge
               improved == { tr.to : tr \in better }
               label2 == [v \in NodeIds |->
                            IF v \in improved THEN label[u] + best(v).w ELSE label[v]]
               pred2 == [v \in NodeIds |->
                            IF v \in improved THEN best(v) ELSE pred[v]]
           IN SearchFrom(label2, pred2, (open \ {u}) \cup improved, t, astar)

NoPred == [edge |-> 0, to |-> 0, w |-> 0]

\* The vertex a traversal was made from: the other end of its edge.
From(tr) ==
    LET e == CHOOSE x \in network_edges : x.id = tr.edge
    IN IF e.target = tr.to /\ e.source # tr.to THEN e.source ELSE e.target

RECURSIVE PathBack(_, _, _)
PathBack(pred, s, v) ==
    IF v = s \/ pred[v] = NoPred THEN <<>>
    ELSE Append(PathBack(pred, s, From(pred[v])), pred[v].edge)

\* The rows path JOIN network_edges e ON path.edge = e.id, as edge ids in path order:
\* empty when s = t and when t is not reached.
PathEdges(s, t, astar) ==
    LET r == SearchFrom([v \in NodeIds |-> IF v = s THEN 0 ELSE Infinity],
                        [v \in NodeIds |-> NoPred], {s}, t, astar)
    IN IF r.label[t] >= Infinity THEN <<>> ELSE PathBack(r.pred, s, t)

EdgeCost(i) == (CHOOSE e \in network_edges : e.id = i).cost

RECURSIVE SumCosts(_)
SumCosts(path) == IF path = <<>> THEN 0 ELSE EdgeCost(Head(path)) + SumCosts(Tail(path))

(***************************************************************************)
(* Request bodies.  A JSON value is null, a number, a string or an object; *)
(* an object is kept as its keys and its values, both in key order (the    *)
(* order Object.values returns the values in).                             *)
(***************************************************************************)
JNull == [t |-> "null", n |-> 0, keys |-> <<>>, vals |-> <<>>]

JUndefined == [t |-> "undefined", n |-> 0, keys |-> <<>>, vals |-> <<>>]

JNum(k) == [t |-> "number", n |-> k, keys |-> <<>>, vals |-> <<>>]

JStr == [t |-> "string", n |-> 0, keys |-> <<>>, vals |-> <<>>]

JObj(ks, vs) == [t |-> "object", n |-> 0, keys |-> ks, vals |-> vs]

\* What the map client sends for a clicked point: a Leaflet LatLng, {lat, lng}.
LatLng(lat, lng) == JObj(<<"lat", "lng">>, <<JNum(lat), JNum(lng)>>)

\* A point as the handlers' 400 message asks for it, longitude first: {lon, lat}.
LonLat(lon, lat) == JObj(<<"lon", "lat">>, <<JNum(lon), JNum(lat)>>)

ObjectValues(v) == v.vals

\* a[i] of a JavaScript array (0-based): undefined past its end.
At(a, i) == IF i + 1 <= Len(a) THEN a[i + 1] ELSE JUndefined

\* The validation with its second test left out: data.start == null only.
MissingStartOnly(body) == body.start.t \in {"null", "undefined"}

\* data.start == null || data.end == null (an absent key reads as undefined).
MissingPoint(body) ==
    \/ body.start.t \in {"null", "undefined"}
    \/ body.end.t \in {"null", "undefined"}

\* Binding a query parameter to ST_MakePoint's double precision argument: the driver
\* sends undefined and null as NULL, a number as its digits; any other text is refused
\* by the server (invalid input syntax).
BindFails(a) == At(a, 0).t \in {"string", "object"} \/ At(a, 1).t \in {"string", "object"}

\* ST_SetSRID(ST_MakePoint($2, $1), 4326) with $1 = a[0], $2 = a[1]: both functions are
\* strict, a NULL argument gives a NULL geometry.
MakePoint(a) ==
    IF At(a, 0).t = "number" /\ At(a, 1).t = "number"
    THEN Point(At(a, 1).n, At(a, 0).n)
    ELSE NullGeom

NoBody == [start |-> JNull, end |-> JNull]

PA == LatLng(0, 0)

PC == LatLng(1, 1)

PD == LatLng(3, 0)

\* The bodies a compute request is drawn from: two well-formed queries (the second
\* between nodes that are not connected), a missing start, a missing end, a start
\* that is an empty object (as is a start with a single coordinate, both its
\* parameters are bound as NULL), a start that is a pair of non-numeric values, a query
\* from a point to itself, and a query whose points give the longitude first.
Bodies ==
    { [start |-> PA, end |-> PC],
      [start |-> PC, end |-> PD],
      [start |-> JNull, end |-> PC],
      [start |-> PA, end |-> JUndefined],
      [start |-> JObj(<<>>, <<>>), end |-> PC],
      [start |-> JObj(<<"lat", "lng">>, <<JStr, JStr>>), end |-> PC],
      [start |-> PA, end |-> PA],
      [start |-> LonLat(1, 0), end |-> LonLat(1, 1)] }

ComputeRoutes == {"/update-route", "/astar-route"}

ClearRoutes == {"/clear-shortest-path", "/clear-astar-path"}

ResetRoute == "/reset-all"

Routes == ComputeRoutes \cup ClearRoutes \cup {ResetRoute}

Views == {"mv_short_path", "mv_astar_path"}

\* The view a compute or clear handler refreshes.
RouteView(route) ==
    IF route \in {"/update-route", "/clear-shortest-path"} THEN "mv_short_path" ELSE "mv_astar_path"

(***************************************************************************)
(* The database.  points holds the committed rows of public.points, each   *)
(* [id, geom, by]: by is the transaction that inserted it (its xmin).      *)
(* xact[r] is the transaction of request r's connection: its status, the   *)
(* rows it inserted and the ids it deleted (both invisible to the others   *)
(* until COMMIT), and the views it refreshed with their new contents.      *)
(* mv[v] holds the committed content of view v: the path's edge ids, with  *)
(* the point rows it was computed from (first, last) and the transactions  *)
(* whose rows the refresh saw (seen).                                      *)
(***************************************************************************)
NoRow == [id |-> 0, geom |-> NullGeom, by |-> 0]

EmptyMv == [edges |-> <<>>, first |-> NoRow, last |-> NoRow, seen |-> {}]

NoViews == [v \in {} |-> EmptyMv]

NoXact == [status |-> "none", ins |-> {}, del |-> {}, mvs |-> NoViews]

NoSnap == [ids |-> {}, data |-> EmptyMv]

NoReq == [route |-> "", body |-> NoBody]

\* No response sent (yet).  A response is the HTTP status with the JSON body's fields; a
\* field the body does not carry is "" or 0.
NoResp == [status |-> 0, message |-> "", edgeCount |-> 0, totalDistance |-> 0, error |-> ""]

\* The rows a statement of r sees: the committed rows r has not deleted, and r's own.
Visible(r) == { p \in points : p.id \notin xact[r].del } \cup xact[r].ins

\* Row id is locked by an open transaction other than r (it deleted the row).
RowLocked(r, id) ==
    \E t \in Req \ {r} : xact[t].status = "open" /\ id \in xact[t].del

\* View v is locked (ACCESS EXCLUSIVE, by REFRESH) by an open transaction other than r.
ViewLocked(r, v) ==
    \E t \in Req \ {r} : xact[t].status = "open" /\ v \in DOMAIN xact[t].mvs

\* SELECT geom FROM points ORDER BY id LIMIT 1 / ORDER BY id DESC LIMIT 1 over rows S.
FirstRow(S) == IF S = {} THEN NoRow ELSE CHOOSE p \in S : \A q \in S : p.id <= q.id

LastRow(S) == IF S = {} THEN NoRow ELSE CHOOSE p \in S : \A q \in S : p.id >= q.id

\* The query of view v evaluated over the point rows S, with st the source and target
\* nodes it resolved.
ViewQuery(v, S, st) ==
    [edges |-> PathEdges(st[1], st[2], v = "mv_astar_path"),
     first |-> FirstRow(S),
     last  |-> LastRow(S),
     seen  |-> { p.by : p \in S }]

\* COMMIT: the transaction's deletes, inserts and refreshed views become the committed state.
CommittedPoints(r) == { p \in points : p.id \notin xact[r].del } \cup xact[r].ins

CommittedViews(r) == [v \in Views |-> IF v \in DOMAIN xact[r].mvs THEN xact[r].mvs[v] ELSE mv[v]]

\* What an earlier run of the server may have left in the database: the rows and the
\* view of a committed /update-route from PA to PC (inserted by transaction 0).
LeftoverPoints ==
    { [id |-> 1, geom |-> MakePoint(ObjectValues(PA)), by |-> 0],
      [id |-> 2, geom |-> MakePoint(ObjectValues(PC)), by |-> 0] }

LeftoverViews ==
    [v \in Views |->
        IF v = "mv_short_path"
        THEN ViewQuery(v, LeftoverPoints,
                       CHOOSE st \in SourceTarget(FirstRow(LeftoverPoints).geom,
                                                  LastRow(LeftoverPoints).geom) : TRUE)
        ELSE EmptyMv]

\* No road line is loaded: the tables of the pipeline are as the server finds them.
NoLines == <<>>

\* No query has been run by hand.
NoRoute == [source |-> 0, target |-> 0, dijkstra |-> <<>>, astar |-> <<>>]

\* The pipeline has run: the graph is in network_nodes and network_edges.
Built ==
    /\ network_nodes = RoadNodes
    /\ network_edges = RoadEdges
    /\ grid_lines = NoLines
    /\ stage = "built"
    /\ found = NoRoute
    /\ snapped = <<>>

\* Number of times Calculate Route is pressed.
MaxCalls == 2

Calls == 1..MaxCalls

\* null as the value of start, end and of an entry of routeInfo.
Null == [t |-> "null", lat |-> 0, lng |-> 0, distance |-> 0, edgeCount |-> 0]

\* e.latlng of a map click.
ClickedAt(lat, lng) == [t |-> "latlng", lat |-> lat, lng |-> lng, distance |-> 0, edgeCount |-> 0]

\* { distance: data.totalDistance, edgeCount: data.edgeCount }.
Info(distance, edgeCount) ==
    [t |-> "info", lat |-> 0, lng |-> 0, distance |-> distance, edgeCount |-> edgeCount]

\* useState({ dijkstra: null, astar: null }).
NoRouteInfo == [dijkstra |-> Null, astar |-> Null]

\* No response of a fetch yet.
NoResponse == [ok |-> FALSE, json |-> FALSE, data |-> Null]

\* A call of sendRouteRequest that has not been made.  at is the await the call is at,
\* dijkstraRes and astarRes the responses it got, cleared whether Clear was pressed
\* since it was made.
NoCall == [at |-> "idle", dijkstraRes |-> NoResponse, astarRes |-> NoResponse, cleared |-> FALSE]

\* The page as it is first rendered: the initial values of its useState and useRef.
PageLoaded ==
    /\ routeInfo = NoRouteInfo
    /\ loading = FALSE
    /\ start = Null
    /\ end = Null
    /\ selecting = "null"
    /\ selectingRef = "null"
    /\ calls = [c \in Calls |-> NoCall]

\* The server has started.  Its startup call of clearPointsAndRefreshViews has either
\* committed (no points, both views empty) or failed, which it only logs, and the
\* database is as the earlier run left it.
Init ==
    /\ Built
    /\ PageLoaded
    /\ pc = [r \in Req |-> "idle"]
    /\ req = [r \in Req |-> NoReq]
    /\ xact = [r \in Req |-> NoXact]
    /\ \/ /\ points = {}
          /\ seq = 0
          /\ mv = [v \in Views |-> EmptyMv]
       \/ /\ points = LeftoverPoints
          /\ seq = Cardinality(LeftoverPoints)
          /\ mv = LeftoverViews
    /\ snap = [r \in Req |-> NoSnap]
    /\ client = [r \in Req |-> FALSE]
    /\ resp = [r \in Req |-> NoResp]
    /\ released = [r \in Req |-> 0]

(***************************************************************************)
(* The handlers.  One action is one awaited call (pool.connect or a        *)
(* client.query) together with the synchronous code that follows it up to  *)
(* the next await: on the last await of a handler that code sends the      *)
(* response and releases the client.  pc[r] names the call request r is    *)
(* about to make.  Every call may fail (ok = FALSE) and then throws.       *)
(***************************************************************************)
Success(msg, n, d) ==
    [status |-> 200, message |-> msg, edgeCount |-> n, totalDistance |-> d, error |-> ""]

SuccessMessage(route) ==
    CASE route \in ComputeRoutes -> "Route has been successfully updated"
      [] route = "/clear-astar-path" -> "A* shortest path data cleared"
      [] route = "/clear-shortest-path" -> "Shortest path data cleared"
      [] OTHER -> "Points cleared and materialized views refreshed."

Failure(code, msg) ==
    [status |-> code, message |-> "", edgeCount |-> 0, totalDistance |-> 0, error |-> msg]

CatchMessage(route) ==
    CASE route = "/update-route" -> "Failed to update route"
      [] route = "/astar-route" -> "Failed to update A* route"
      [] route = "/clear-astar-path" -> "Failed to clear A* shortest path data"
      [] route = "/clear-shortest-path" -> "Failed to clear shortest path data"
      [] OTHER -> "Failed to reset all."

MvCatchMessage(route) ==
    IF RouteView(route) = "mv_short_path"
    THEN "Failed to refresh materialized view"
    ELSE "Failed to refresh mv_astar_path"

\* The catch block ending the transaction with COMMIT where ROLLBACK is meant.
CommitInCatch(r) ==
    /\ xact' = [xact EXCEPT ![r] =
                  IF @.status = "open" THEN [NoXact EXCEPT !.status = "aborted"] ELSE @]
    /\ points' = IF xact[r].status = "open" THEN CommittedPoints(r) ELSE points
    /\ mv' = IF xact[r].status = "open" THEN CommittedViews(r) ELSE mv

\* The catch block without its ROLLBACK: the client goes back to the pool with the
\* transaction still open.
LeaveOpen(r) == UNCHANGED <<xact, points, mv>>

\* ROLLBACK: an open transaction is aborted and what it did is discarded; with no
\* transaction open it does nothing.
Rollback(r) ==
    /\ xact' = [xact EXCEPT ![r] =
                  IF @.status = "open" THEN [NoXact EXCEPT !.status = "aborted"] ELSE @]
    /\ UNCHANGED <<points, mv>>

\* The handler ending without client.release().
KeepClient(r) == UNCHANGED <<client, released>>

\* finally { client.release(); }: the client goes back to the pool.
ReleaseClient(r) ==
    /\ client' = [client EXCEPT ![r] = FALSE]
    /\ released' = [released EXCEPT ![r] = @ + 1]

\* The request arrives (requests are numbered in their order of arrival); the compute
\* handlers validate the body before anything else.
Receive(r) ==
    /\ pc[r] = "idle"
    /\ \A q \in Req : q < r => pc[q] # "idle"
    /\ \E route \in Routes, body \in Bodies \cup {NoBody} :
         /\ body = NoBody <=> route \notin ComputeRoutes
         /\ req' = [req EXCEPT ![r] = [route |-> route, body |-> body]]
         /\ IF route \in ComputeRoutes /\ MissingPoint(body)
            THEN /\ resp' = [resp EXCEPT ![r] =
                       Failure(400, "Start and end points must be arrays of two numbers [longitude, latitude]")]
                 /\ pc' = [pc EXCEPT ![r] = "done"]
            ELSE /\ pc' = [pc EXCEPT ![r] = "connect"]
                 /\ UNCHANGED resp
    /\ UNCHANGED <<xact, points, seq, mv, snap, client, released, offline, frontend>>

\* await pool.connect().  It is outside the try of the compute and clear handlers: when
\* it rejects, they end without a response; reset-all's own catch answers 500.
Connect(r) ==
    /\ pc[r] = "connect"
    /\ \E ok \in BOOLEAN :
         IF ok
         THEN /\ client' = [client EXCEPT ![r] = TRUE]
              /\ pc' = [pc EXCEPT ![r] = "begin"]
              /\ UNCHANGED resp
         ELSE /\ pc' = [pc EXCEPT ![r] = "done"]
              /\ resp' = [resp EXCEPT ![r] =
                    IF req[r].route = ResetRoute THEN Failure(500, CatchMessage(ResetRoute)) ELSE @]
              /\ UNCHANGED client
    /\ UNCHANGED <<req, xact, points, seq, mv, snap, released, offline, frontend>>

Begin(r) ==
    /\ pc[r] = "begin"
    /\ \E ok \in BOOLEAN :
         IF ok
         THEN /\ xact' = [xact EXCEPT ![r] = [NoXact EXCEPT !.status = "open"]]
              /\ pc' = [pc EXCEPT ![r] = "delete"]
         ELSE /\ pc' = [pc EXCEPT ![r] = "catch"]
              /\ UNCHANGED xact
    /\ UNCHANGED <<req, points, seq, mv, snap, client, resp, released, offline, frontend>>

AfterDelete(route) == IF route \in ComputeRoutes THEN "insert_start" ELSE "refresh"

\* DELETE FROM public.points: the rows of the statement's snapshot are deleted; if one
\* of them is locked by an open transaction the statement waits for that transaction.
DeletePoints(r) ==
    /\ pc[r] = "delete"
    /\ \E ok \in BOOLEAN :
         IF ok
         THEN LET targets == { p.id : p \in Visible(r) }
              IN IF \E id \in targets : RowLocked(r, id)
                 THEN /\ snap' = [snap EXCEPT ![r].ids = targets]
                      /\ pc' = [pc EXCEPT ![r] = "delete_wait"]
                      /\ UNCHANGED xact
                 ELSE /\ xact' = [xact EXCEPT ![r].del = targets]
                      /\ pc' = [pc EXCEPT ![r] = AfterDelete(req[r].route)]
                      /\ UNCHANGED snap
         ELSE /\ pc' = [pc EXCEPT ![r] = "catch"]
              /\ UNCHANGED <<xact, snap>>
    /\ UNCHANGED <<req, points, seq, mv, client, resp, released, offline, frontend>>

\* The waiting DELETE goes on once no row of its snapshot is locked: a row whose
\* deleter committed is gone and is skipped, the rows a committed transaction
\* inserted meanwhile are not in the snapshot.
DeleteResume(r) ==
    /\ pc[r] = "delete_wait"
    /\ \A id \in snap[r].ids : ~RowLocked(r, id)
    /\ xact' = [xact EXCEPT ![r].del = { id \in snap[r].ids : \E p \in points : p.id = id }]
    /\ snap' = [snap EXCEPT ![r] = NoSnap]
    /\ pc' = [pc EXCEPT ![r] = AfterDelete(req[r].route)]
    /\ UNCHANGED <<req, points, seq, mv, client, resp, released, offline, frontend>>

\* INSERT INTO public.points (geom) VALUES (ST_SetSRID(ST_MakePoint($2, $1), 4326))
\* with parameters [a[0], a[1]]; id comes from the table's sequence.
InsertPoint(r, a, next) ==
    /\ \E ok \in BOOLEAN :
         IF ok /\ ~BindFails(a)
         THEN /\ xact' = [xact EXCEPT ![r].ins =
                            @ \cup {[id |-> seq + 1, geom |-> MakePoint(a), by |-> r]}]
              /\ seq' = seq + 1
              /\ pc' = [pc EXCEPT ![r] = next]
         ELSE /\ pc' = [pc EXCEPT ![r] = "catch"]
              /\ UNCHANGED <<xact, seq>>
    /\ UNCHANGED <<req, points, mv, snap, client, resp, released, offline, frontend>>

InsertStart(r) ==
    /\ pc[r] = "insert_start"
    /\ InsertPoint(r, ObjectValues(req[r].body.start), "insert_end")

InsertEnd(r) ==
    /\ pc[r] = "insert_end"
    /\ InsertPoint(r, ObjectValues(req[r].body.end), "refresh")

\* The view the REFRESH at pc[r] names: reset-all refreshes mv_short_path, then mv_astar_path.
RefreshTarget(r) ==
    IF req[r].route = ResetRoute
    THEN IF pc[r] \in {"refresh", "refresh_wait"} THEN "mv_short_path" ELSE "mv_astar_path"
    ELSE RouteView(req[r].route)

AfterRefresh(r) ==
    IF req[r].route = ResetRoute /\ pc[r] \in {"refresh", "refresh_wait"}
    THEN "refresh_astar"
    ELSE "commit"

\* Where a failed REFRESH is caught: the compute and clear handlers wrap it in a try of
\* its own, clearPointsAndRefreshViews does not.
RefreshCatch(r) == IF req[r].route = ResetRoute THEN "catch" ELSE "mv_catch"

\* REFRESH MATERIALIZED VIEW: the view's query is evaluated over the statement's
\* snapshot, which is taken before the view's lock is waited for.
Refresh(r) ==
    /\ pc[r] \in {"refresh", "refresh_astar"}
    /\ \E ok \in BOOLEAN :
         IF ok
         THEN \E st \in SourceTarget(FirstRow(Visible(r)).geom, LastRow(Visible(r)).geom) :
              LET v == RefreshTarget(r)
                  data == ViewQuery(v, Visible(r), st)
              IN IF ViewLocked(r, v)
                 THEN /\ snap' = [snap EXCEPT ![r].data = data]
                      /\ pc' = [pc EXCEPT ![r] =
                                  IF pc[r] = "refresh" THEN "refresh_wait" ELSE "refresh_astar_wait"]
                      /\ UNCHANGED xact
                 ELSE /\ xact' = [xact EXCEPT ![r].mvs =
                                    [w \in DOMAIN @ \cup {v} |-> IF w = v THEN data ELSE @[w]]]
                      /\ pc' = [pc EXCEPT ![r] = AfterRefresh(r)]
                      /\ UNCHANGED snap
         ELSE /\ pc' = [pc EXCEPT ![r] = RefreshCatch(r)]
              /\ UNCHANGED <<xact, snap>>
    /\ UNCHANGED <<req, points, seq, mv, client, resp, released, offline, frontend>>

RefreshResume(r) ==
    /\ pc[r] \in {"refresh_wait", "refresh_astar_wait"}
    /\ ~ViewLocked(r, RefreshTarget(r))
    /\ xact' = [xact EXCEPT ![r].mvs =
                  [w \in DOMAIN @ \cup {RefreshTarget(r)} |->
                      IF w = RefreshTarget(r) THEN snap[r].data ELSE @[w]]]
    /\ snap' = [snap EXCEPT ![r] = NoSnap]
    /\ pc' = [pc EXCEPT ![r] = AfterRefresh(r)]
    /\ UNCHANGED <<req, points, seq, mv, client, resp, released, offline, frontend>>

\* COMMIT.  A compute handler goes on to read the aggregate; a clear handler and
\* reset-all answer Success and release the client.  A COMMIT that fails leaves the
\* transaction aborted.  The record of a committed transaction keeps the content of
\* the views it committed.
Commit(r) ==
    /\ pc[r] = "commit"
    /\ \E ok \in BOOLEAN :
         IF ok
         THEN /\ points' = CommittedPoints(r)
              /\ mv' = CommittedViews(r)
              /\ xact' = [xact EXCEPT ![r] =
                            [NoXact EXCEPT !.status = "committed", !.mvs = xact[r].mvs]]
              /\ IF req[r].route \in ComputeRoutes
                 THEN /\ pc' = [pc EXCEPT ![r] = "select"]
                      /\ UNCHANGED <<client, resp, released>>
                 ELSE /\ pc' = [pc EXCEPT ![r] = "done"]
                      /\ resp' = [resp EXCEPT ![r] = Success(SuccessMessage(req[r].route), 0, 0)]
                      /\ ReleaseClient(r)
         ELSE /\ xact' = [xact EXCEPT ![r] = [NoXact EXCEPT !.status = "aborted"]]
              /\ pc' = [pc EXCEPT ![r] = "catch"]
              /\ UNCHANGED <<points, mv, client, resp, released>>
    /\ UNCHANGED <<req, seq, snap, offline, frontend>>

\* SELECT COUNT(*), COALESCE(SUM(cost),0) FROM the view, after COMMIT and outside any
\* transaction: it reads the committed content and waits while the view is locked.
SelectAggregate(r) ==
    /\ pc[r] = "select"
    /\ \E ok \in BOOLEAN :
         IF ok
         THEN /\ ~ViewLocked(r, RouteView(req[r].route))
              /\ resp' = [resp EXCEPT ![r] =
                    Success(SuccessMessage(req[r].route),
                            Len(mv[RouteView(req[r].route)].edges),
                            SumCosts(mv[RouteView(req[r].route)].edges))]
              /\ ReleaseClient(r)
              /\ pc' = [pc EXCEPT ![r] = "done"]
         ELSE /\ pc' = [pc EXCEPT ![r] = "catch"]
              /\ UNCHANGED <<client, resp, released>>
    /\ UNCHANGED <<req, xact, points, seq, mv, snap, offline, frontend>>

\* catch (err): ROLLBACK, then the compute and clear handlers answer 500, while
\* clearPointsAndRefreshViews only logs, so reset-all answers Success.  A ROLLBACK that
\* throws (the connection is lost, the server aborts the transaction) leaves the
\* compute and clear handlers without a response; reset-all's catch answers 500.
Catch(r) ==
    /\ pc[r] = "catch"
    /\ Rollback(r)
    /\ \E ok \in BOOLEAN :
         resp' = [resp EXCEPT ![r] =
                    IF req[r].route = ResetRoute
                    THEN IF ok THEN Success(SuccessMessage(ResetRoute), 0, 0)
                               ELSE Failure(500, CatchMessage(ResetRoute))
                    ELSE IF ok THEN Failure(500, CatchMessage(req[r].route)) ELSE @]
    /\ ReleaseClient(r)
    /\ pc' = [pc EXCEPT ![r] = "done"]
    /\ UNCHANGED <<req, seq, snap, offline, frontend>>

\* catch (mvErr) around the REFRESH of a compute or clear handler: ROLLBACK, answer 500
\* and return.  The block is inside the handler's outer try: a ROLLBACK that throws here
\* is caught by the outer catch, which issues ROLLBACK again.
MvCatch(r) ==
    /\ pc[r] = "mv_catch"
    /\ Rollback(r)
    /\ \E ok \in BOOLEAN :
         IF ok
         THEN /\ resp' = [resp EXCEPT ![r] = Failure(500, MvCatchMessage(req[r].route))]
              /\ ReleaseClient(r)
              /\ pc' = [pc EXCEPT ![r] = "done"]
         ELSE /\ pc' = [pc EXCEPT ![r] = "catch"]
              /\ UNCHANGED <<resp, client, released>>
    /\ UNCHANGED <<req, seq, snap, offline, frontend>>

Next ==
    \E r \in Req :
        \/ Receive(r)
        \/ Connect(r)
        \/ Begin(r)
        \/ DeletePoints(r)
        \/ DeleteResume(r)
        \/ InsertStart(r)
        \/ InsertEnd(r)
        \/ Refresh(r)
        \/ RefreshResume(r)
        \/ Commit(r)
        \/ SelectAggregate(r)
        \/ Catch(r)
        \/ MvCatch(r)

Spec == Init /\ [][Next]_vars

(***************************************************************************)
(* Queries run by hand on a built graph, with the server not running: the  *)
(* shortest path between two node ids by pgr_dijkstra and by pgr_aStar,    *)
(* and the nearest-node subquery of the views for a point.                 *)
(***************************************************************************)
backend == <<pc, req, xact, points, seq, mv, snap, client, resp, released>>

\* The server is not running: no request, no point, both views empty.
ServerDown ==
    /\ pc = [r \in Req |-> "idle"]
    /\ req = [r \in Req |-> NoReq]
    /\ xact = [r \in Req |-> NoXact]
    /\ points = {}
    /\ seq = 0
    /\ mv = [v \in Views |-> EmptyMv]
    /\ snap = [r \in Req |-> NoSnap]
    /\ client = [r \in Req |-> FALSE]
    /\ resp = [r \in Req |-> NoResp]
    /\ released = [r \in Req |-> 0]

\* Four nodes on the parallel of 89.99 and 89.98 degrees north (coordinates in
\* hundredths of a degree): 1 (0, 89.99), 2 (3, 89.99), 3 (6, 89.99), 4 (6, 89.98).
PolarNodes ==
    { [id |-> 1, x |-> 0, y |-> 8999],
      [id |-> 2, x |-> 300, y |-> 8999],
      [id |-> 3, x |-> 600, y |-> 8999],
      [id |-> 4, x |-> 600, y |-> 8998] }

\* The edges between them with the cost the pipeline stores,
\* ROUND(ST_DistanceSphere / 1000, 2), in hundredths of a kilometre: three degrees of
\* longitude at 89.99 north are 0.06 km, 0.01 degree of latitude is 1.11 km.
PolarEdges ==
    { [id |-> 1, source |-> 1, target |-> 2, cost |-> 6, reverse_cost |-> 6],
      [id |-> 2, source |-> 2, target |-> 3, cost |-> 6, reverse_cost |-> 6],
      [id |-> 3, source |-> 1, target |-> 4, cost |-> 112, reverse_cost |-> 112],
      [id |-> 4, source |-> 4, target |-> 3, cost |-> 111, reverse_cost |-> 111] }

\* The built graphs a query is run on: the nodes of a region with any of its edges.
Graphs ==
    { [nodes |-> RoadNodes, edges |-> E] : E \in SUBSET RoadEdges }
    \cup { [nodes |-> PolarNodes, edges |-> E] : E \in SUBSET PolarEdges }

\* The points the nearest node is asked for: on a node, at the same distance from two
\* nodes, and away from all.
QueryPoints == { Point(0, 0), Point(0, 1), Point(3, 0) }

\* Number of nearest-node queries run.
MaxResolved == 2

InitSearch ==
    /\ ServerDown
    /\ PageLoaded
    /\ \E G \in Graphs :
          /\ network_nodes = G.nodes
          /\ network_edges = G.edges
    /\ grid_lines = NoLines
    /\ stage = "built"
    /\ found = NoRoute
    /\ snapped = <<>>

\* SELECT ... FROM pgr_dijkstra(edges, s, t, directed := FALSE) JOIN network_edges, and
\* the same with pgr_aStar: the edges of the path found, in path order.
Search(s, t) ==
    /\ found' = [source |-> s, target |-> t,
                 dijkstra |-> PathEdges(s, t, FALSE),
                 astar |-> PathEdges(s, t, TRUE)]
    /\ UNCHANGED <<backend, frontend, network_nodes, network_edges, grid_lines, stage, snapped>>

\* SELECT id FROM network_nodes ORDER BY geom <-> g LIMIT 1, run as a statement of its own.
Resolve(g) ==
    /\ Len(snapped) < MaxResolved
    /\ \E n \in NearestNodes(g) : snapped' = Append(snapped, [geom |-> g, node |-> n])
    /\ UNCHANGED <<backend, frontend, network_nodes, network_edges, grid_lines, stage, found>>

NextSearch ==
    \/ \E s, t \in NodeIds : Search(s, t)
    \/ \E g \in QueryPoints : Resolve(g)

SpecSearch == InitSearch /\ [][NextSearch]_vars

(***************************************************************************)
(* The pipeline that builds the graph from the road lines, one statement a *)
(* step.  Here coordinates are in units of 0.00005 degree (5.56 m), so     *)
(* that points closer than the tolerance of 0.0001 degree are told apart;  *)
(* the road lines run along the grid, their vertices on grid points.  A    *)
(* line is the sequence of its vertices, grid_lines the sequence of the    *)
(* lines (a line's id is its place in it).                                 *)
(***************************************************************************)
\* ST_DWithin(l.geom, n.geom, 0.0001): the tolerance, in units.
Epsilon == 2

\* The grid points lie in 0..GridSize both ways.
GridSize == 5

Lattice == (0..GridSize) \X (0..GridSize)

\* The roads a table is loaded from: a street, a street ending on it, a street
\* crossing that one, a line of no length, a street that starts 0.00005 degree off
\* the end of the first, and a street with a bend.
Roads ==
    << <<Point(0, 0), Point(4, 0)>>,
       <<Point(2, 0), Point(2, 3)>>,
       <<Point(0, 1), Point(4, 1)>>,
       <<Point(1, 0), Point(1, 0)>>,
       <<Point(5, 0), Point(5, 3)>>,
       <<Point(0, 0), Point(0, 2), Point(3, 2)>> >>

\* Number of lines in grid_lines.
MaxLines == 2

\* The elements of the set of numbers I, in increasing order.
RECURSIVE Ascending(_)
Ascending(I) ==
    IF I = {} THEN <<>>
    ELSE LET least == CHOOSE i \in I : \A j \in I : i <= j
         IN <<least>> \o Ascending(I \ {least})

\* INSERT INTO grid_lines (geom) SELECT geom FROM roads: the tables it can give.
LineTables ==
    { [k \in 1..Cardinality(I) |-> Roads[Ascending(I)[k]]] :
         I \in { J \in SUBSET (1..Len(Roads)) : Cardinality(J) <= MaxLines } }

Min(a, b) == IF a <= b THEN a ELSE b

Max(a, b) == IF a >= b THEN a ELSE b

\* Point p lies on the segment from a to b.
OnSegment(p, a, b) ==
    /\ (b[1] - a[1]) * (p[2] - a[2]) = (b[2] - a[2]) * (p[1] - a[1])
    /\ Min(a[1], b[1]) <= p[1] /\ p[1] <= Max(a[1], b[1])
    /\ Min(a[2], b[2]) <= p[2] /\ p[2] <= Max(a[2], b[2])

\* Point p lies on line l.
OnLine(p, l) == \E k \in 1..(Len(l) - 1) : OnSegment(p, l[k], l[k + 1])

\* The distance between two points, squared, and its length along the grid.
Dist2(p, q) == (p[1] - q[1]) * (p[1] - q[1]) + (p[2] - q[2]) * (p[2] - q[2])

Length(a, b) == Abs(a[1] - b[1]) + Abs(a[2] - b[2])

\* ST_ClosestPoint(l, p): the point of l nearest to p (lines run along the grid, so it
\* is a grid point).
ClosestPoint(l, p) ==
    IF OnLine(p, l) THEN p
    ELSE LET on == { c \in Lattice : OnLine(c, l) }
         IN CHOOSE c \in on : \A d \in on : Dist2(c, p) <= Dist2(d, p)

\* ST_LineLocatePoint(l, p) times the length of l: the length of l up to the first
\* place where it passes the point of l closest to p (Along: up to point c of l, from
\* its vertex k on).
RECURSIVE Along(_, _, _)
Along(l, c, k) ==
    IF k >= Len(l) THEN 0
    ELSE IF OnSegment(c, l[k], l[k + 1])
         THEN Length(l[k], c)
         ELSE Length(l[k], l[k + 1]) + Along(l, c, k + 1)

LineLocatePoint(l, p) == Along(l, ClosestPoint(l, p), 1)

\* ST_Intersection(a, b) where it is of type ST_Point: lines along the grid share a
\* single point exactly when they share a single grid point.
PointIntersections ==
    { p \in Lattice :
        \E a, b \in 1..Len(grid_lines) :
            { q \in Lattice : OnLine(q, grid_lines[a]) /\ OnLine(q, grid_lines[b]) } = {p} }

\* ROUND(ST_DistanceSphere(a, b)::NUMERIC / 1000, 2), in hundredths of a kilometre: a
\* unit is 5.56 m near the equator.
RoundedKm(a, b) ==
    (556 * ISqrtBetween(100 * Dist2(a, b), 0, 10 * Length(a, b)) + 5000) \div 10000

NodeGeom(n) == Point(n.x, n.y)

LastId(rows) == IF rows = {} THEN 0 ELSE CHOOSE i \in { r.id : r \in rows } : \A r \in rows : r.id <= i

\* The vertices of the lines as <<line, place>>, and their number before a given one
\* in the order the lines are dumped.
Vertices == { v \in (1..Len(grid_lines)) \X (1..3) : v[2] <= Len(grid_lines[v[1]]) }

Before(v) == Cardinality({ w \in Vertices : w[1] < v[1] \/ (w[1] = v[1] /\ w[2] < v[2]) })

InitBuild ==
    /\ ServerDown
    /\ PageLoaded
    /\ grid_lines \in LineTables
    /\ stage = "roads"
    /\ network_nodes = {}
    /\ network_edges = {}
    /\ found = NoRoute
    /\ snapped = <<>>

\* INSERT INTO network_nodes (geom) SELECT (dp).geom FROM grid_lines, ST_DumpPoints(geom).
ExtractVertices ==
    /\ stage = "roads"
    /\ network_nodes' =
          { [id |-> Before(v) + 1, x |-> grid_lines[v[1]][v[2]][1], y |-> grid_lines[v[1]][v[2]][2]] :
              v \in Vertices }
    /\ stage' = "vertices"
    /\ UNCHANGED <<backend, frontend, network_edges, grid_lines, found, snapped>>

\* INSERT INTO network_nodes (geom) SELECT DISTINCT ST_Intersection(a.geom, b.geom) ...:
\* the rows of a DISTINCT come in no fixed order, so the ids go to the points in any order.
IntersectionNodes ==
    /\ stage = "vertices"
    /\ \E ids \in [PointIntersections ->
                     (LastId(network_nodes) + 1)..(LastId(network_nodes) + Cardinality(PointIntersections))] :
          /\ \A p, q \in PointIntersections : ids[p] = ids[q] => p = q
          /\ network_nodes' = network_nodes \cup
                { [id |-> ids[p], x |-> p[1], y |-> p[2]] : p \in PointIntersections }
    /\ stage' = "intersections"
    /\ UNCHANGED <<backend, frontend, network_edges, grid_lines, found, snapped>>

\* CREATE TABLE temp AS SELECT DISTINCT ON (geom) * FROM network_nodes, renamed to
\* network_nodes: of the rows with equal geom one is kept, which one is not fixed.
RemoveDuplicates ==
    /\ stage = "intersections"
    /\ \E kept \in SUBSET network_nodes :
          /\ \A n \in network_nodes : \E k \in kept : NodeGeom(k) = NodeGeom(n)
          /\ \A k1, k2 \in kept : NodeGeom(k1) = NodeGeom(k2) => k1 = k2
          /\ network_nodes' = kept
    /\ stage' = "deduplicated"
    /\ UNCHANGED <<backend, frontend, network_edges, grid_lines, found, snapped>>

\* node_on_line: the nodes within the tolerance of a line that are their own closest
\* point on it, with their fraction along the line.
NodeOnLine ==
    UNION { { [line_id |-> l, node_id |-> n.id, node_geom |-> NodeGeom(n),
               fraction |-> LineLocatePoint(grid_lines[l], NodeGeom(n))] :
                 n \in { m \in network_nodes :
                           LET closest == ClosestPoint(grid_lines[l], NodeGeom(m))
                           IN /\ Dist2(closest, NodeGeom(m)) <= Epsilon * Epsilon
                              /\ NodeGeom(m) = closest } } :
            l \in 1..Len(grid_lines) }

\* n2.rn = n1.rn + 1, the join condition of node_pairs, written without the + 1.
AnyLaterNode(rn1, rn2) == rn2 > rn1

\* n2.rn = n1.rn + 1.
NextNode(rn1, rn2) == rn2 = rn1 + 1

\* ordered_nodes: ROW_NUMBER() OVER (PARTITION BY line_id ORDER BY fraction).
OrderedNodes ==
    LET node_on_line == NodeOnLine
    IN { [line_id |-> r.line_id, node_id |-> r.node_id, node_geom |-> r.node_geom,
          fraction |-> r.fraction,
          rn |-> 1 + Cardinality({ o \in node_on_line :
                                     o.line_id = r.line_id /\ o.fraction < r.fraction })] :
            r \in node_on_line }

\* node_pairs: ordered_nodes joined with itself on the line and on the row number.
NodePairs ==
    LET ordered_nodes == OrderedNodes
    IN UNION { { [line_id |-> n1.line_id, rn |-> n1.rn,
                  source |-> n1.node_id, source_geom |-> n1.node_geom,
                  target |-> n2.node_id, target_geom |-> n2.node_geom] :
                    n2 \in { o \in ordered_nodes :
                               o.line_id = n1.line_id /\ NextNode(n1.rn, o.rn) } } :
               n1 \in ordered_nodes }

\* The number of the pairs before pair p, by line and row number: the order the rows
\* are inserted in.
PairsBefore(node_pairs, p) ==
    Cardinality({ q \in node_pairs :
                    \/ q.line_id < p.line_id
                    \/ q.line_id = p.line_id /\ q.rn < p.rn
                    \/ q.line_id = p.line_id /\ q.rn = p.rn /\ q.target < p.target })

\* INSERT INTO network_edges (source, target, cost, geom) SELECT ... FROM node_pairs.
CreateEdges ==
    /\ stage = "deduplicated"
    /\ LET node_pairs == NodePairs
       IN network_edges' =
            { [id |-> PairsBefore(node_pairs, p) + 1, source |-> p.source, target |-> p.target,
               cost |-> RoundedKm(p.source_geom, p.target_geom)] : p \in node_pairs }
    /\ stage' = "edges"
    /\ UNCHANGED <<backend, frontend, network_nodes, grid_lines, found, snapped>>

\* ALTER TABLE network_edges ADD COLUMN reverse_cost; UPDATE network_edges SET reverse_cost = cost.
AddReverseCost ==
    /\ stage = "edges"
    /\ network_edges' =
          { [id |-> e.id, source |-> e.source, target |-> e.target,
             cost |-> e.cost, reverse_cost |-> e.cost] : e \in network_edges }
    /\ stage' = "built"
    /\ UNCHANGED <<backend, frontend, network_nodes, grid_lines, found, snapped>>

NextBuild ==
    \/ ExtractVertices
    \/ IntersectionNodes
    \/ RemoveDuplicates
    \/ CreateEdges
    \/ AddReverseCost

SpecBuild == InitBuild /\ [][NextBuild]_vars

(***************************************************************************)
(* The map page.  One action is one event handler, or the part of          *)
(* sendRouteRequest from one await to the next; React renders the state    *)
(* set in it and runs the effects of that render (the effect that copies   *)
(* selecting to selectingRef) before the next event is handled.  The       *)
(* server is taken by its answers: a fetch gets any of the responses a     *)
(* handler can give, or is rejected.                                       *)
(***************************************************************************)
\* The points of the map that are clicked.
LatLngs == { ClickedAt(0, 0), ClickedAt(1, 1) }

\* The results a compute handler answers with: a path of one edge, and no path.
Answers == { Info(157, 1), Info(0, 0) }

\* The responses of a fetch: 200 with edgeCount and totalDistance, 400 or 500 with
\* { error }, and a response whose body is not JSON.
Responses ==
    { [ok |-> TRUE, json |-> TRUE, data |-> i] : i \in Answers }
    \cup { [ok |-> FALSE, json |-> TRUE, data |-> Null], [ok |-> FALSE, json |-> FALSE, data |-> Null] }

InitFrontend ==
    /\ ServerDown
    /\ Built
    /\ PageLoaded

\* The click handler leaving the mode as it is.
KeepSelecting(mode) == mode

\* setSelecting(null) of the click handler: the mode after a click that set a point.
AfterClick(mode) == "null"

\* useEffect(() => { selectingRef.current = selecting; }, [selecting]).
SetSelecting(mode) ==
    /\ selecting' = mode
    /\ selectingRef' = mode

\* onClick of Select Start and of Select End (disabled while that mode is on).
SelectButton(mode) ==
    /\ selecting # mode
    /\ SetSelecting(mode)
    /\ UNCHANGED <<backend, offline, routeInfo, loading, start, end, calls>>

\* map.on('click'): the handler reads the mode from selectingRef.
MapClick(latlng) ==
    /\ IF selectingRef = "start"
       THEN /\ start' = latlng
            /\ SetSelecting(AfterClick(selectingRef))
            /\ UNCHANGED end
       ELSE IF selectingRef = "end"
            THEN /\ end' = latlng
                 /\ SetSelecting(AfterClick(selectingRef))
                 /\ UNCHANGED start
            ELSE UNCHANGED <<start, end, selecting, selectingRef>>
    /\ UNCHANGED <<backend, offline, routeInfo, loading, calls>>

\* start && end.
BothSet == start.t # "null" /\ end.t # "null"

\* sendRouteRequest up to await Promise.all([fetch, fetch]), as call c.
SendRouteRequest(c) ==
    IF BothSet
    THEN /\ loading' = TRUE
         /\ calls' = [calls EXCEPT ![c] = [NoCall EXCEPT !.at = "fetch"]]
    ELSE UNCHANGED <<loading, calls>>

\* onClick of Calculate Route (disabled unless start && end); the calls are numbered in
\* the order they are made.
Calculate(c) ==
    /\ calls[c].at = "idle"
    /\ \A d \in Calls : d < c => calls[d].at # "idle"
    /\ BothSet
    /\ SendRouteRequest(c)
    /\ UNCHANGED <<backend, offline, routeInfo, start, end, selecting, selectingRef>>

\* catch (alert) and finally { setLoading(false) } when call c throws.
Thrown(c) ==
    /\ loading' = FALSE
    /\ calls' = [calls EXCEPT ![c] = [NoCall EXCEPT !.at = "done"]]
    /\ UNCHANGED routeInfo

\* await Promise.all settles: rejected when a fetch fails, else with both responses.
FetchSettled(c) ==
    /\ calls[c].at = "fetch"
    /\ \/ Thrown(c)
       \/ \E d, a \in Responses :
             /\ calls' = [calls EXCEPT ![c].at = "json_dijkstra",
                                       ![c].dijkstraRes = d, ![c].astarRes = a]
             /\ UNCHANGED <<routeInfo, loading>>
    /\ UNCHANGED <<backend, offline, start, end, selecting, selectingRef>>

\* await dijkstraRes.json().
JsonDijkstra(c) ==
    /\ calls[c].at = "json_dijkstra"
    /\ IF calls[c].dijkstraRes.json
       THEN /\ calls' = [calls EXCEPT ![c].at = "json_astar"]
            /\ UNCHANGED <<routeInfo, loading>>
       ELSE Thrown(c)
    /\ UNCHANGED <<backend, offline, start, end, selecting, selectingRef>>

\* await astarRes.json(), then setRouteInfo(info), the throw when a response is not
\* ok, and finally { setLoading(false) }.
JsonAstar(c) ==
    /\ calls[c].at = "json_astar"
    /\ IF calls[c].astarRes.json
       THEN /\ routeInfo' = [dijkstra |-> calls[c].dijkstraRes.data, astar |-> calls[c].astarRes.data]
            /\ loading' = FALSE
            /\ calls' = [calls EXCEPT ![c] = [NoCall EXCEPT !.at = "done"]]
       ELSE Thrown(c)
    /\ UNCHANGED <<backend, offline, start, end, selecting, selectingRef>>

\* onClick of Clear: clearShortestPath sets routeInfo empty before its requests.
ClearShortestPath ==
    /\ routeInfo' = NoRouteInfo
    /\ calls' = [c \in Calls |->
                   IF calls[c].at \in {"idle", "done"} THEN calls[c]
                   ELSE [calls[c] EXCEPT !.cleared = TRUE]]
    /\ UNCHANGED <<backend, offline, loading, start, end, selecting, selectingRef>>

NextFrontend ==
    \/ \E mode \in {"start", "end"} : SelectButton(mode)
    \/ \E latlng \in LatLngs : MapClick(latlng)
    \/ \E c \in Calls : Calculate(c)
    \/ \E c \in Calls : FetchSettled(c)
    \/ \E c \in Calls : JsonDijkstra(c)
    \/ \E c \in Calls : JsonAstar(c)
    \/ ClearShortestPath

SpecFrontend == InitFrontend /\ [][NextFrontend]_vars

\* A step of the handler of request r after the request has arrived.
Handle(r) ==
    \/ Connect(r)
    \/ Begin(r)
    \/ DeletePoints(r)
    \/ DeleteResume(r)
    \/ InsertStart(r)
    \/ InsertEnd(r)
    \/ Refresh(r)
    \/ RefreshResume(r)
    \/ Commit(r)
    \/ SelectAggregate(r)
    \/ Catch(r)
    \/ MvCatch(r)

\* The event loop runs a handler's continuation once the call it awaits has settled,
\* and the database settles every call: a statement that can run does run, and a
\* statement waiting for a lock is granted it once the holder's transaction has ended.
FairSpec == Spec /\ \A r \in Req : WF_vars(Handle(r))

(***************************************************************************)
(* Properties.                                                             *)
(***************************************************************************)
IsCompute(r) == req[r].route \in ComputeRoutes

IsClear(r) == req[r].route \in ClearRoutes

IsReset(r) == req[r].route = ResetRoute

\* Request r takes a step.
Steps(r) == pc'[r] # pc[r]

\* A statement of r's transaction failed after BEGIN and before COMMIT (the DELETE, an
\* INSERT or the REFRESH): the handler is in a catch block with the transaction open.
FailedInTransaction(r) == pc[r] \in {"catch", "mv_catch"} /\ xact[r].status = "open"

\* C1: a compute request changes neither the committed points nor the committed views
\* by any step it takes from BEGIN on other than a COMMIT that succeeds, and when a
\* statement between BEGIN and COMMIT has failed, its catch block ends the transaction
\* rolled back (and the handler ends, or goes to the outer catch when the inner one
\* throws), with points and both views as they were.
C1_FailedComputeRollsBack ==
    [][\A r \in Req :
         /\ (IsCompute(r) /\ Steps(r) /\ xact[r].status = "open" /\ xact'[r].status # "committed")
               => (points' = points /\ mv' = mv)
         /\ (IsCompute(r) /\ Steps(r) /\ FailedInTransaction(r))
               => /\ xact'[r].status = "aborted"
                  /\ pc'[r] \in {"done", "catch"}
                  /\ points' = points
                  /\ mv' = mv]_vars

\* C1 witness: with the earlier result and points in place, an /update-route request
\* whose REFRESH failed has been answered 500 and rolled back, and both are in place.
C1_Witness ==
    \E r \in Req :
        /\ pc[r] = "done"
        /\ req[r].route = "/update-route"
        /\ resp[r] = Failure(500, "Failed to refresh materialized view")
        /\ xact[r].status = "aborted"
        /\ points = LeftoverPoints
        /\ mv = LeftoverViews
        /\ mv["mv_short_path"].edges # <<>>

\* A point that is present but is not a pair of numbers.
Malformed(v) ==
    /\ v.t \notin {"null", "undefined"}
    /\ ~(At(ObjectValues(v), 0).t = "number" /\ At(ObjectValues(v), 1).t = "number")

\* Both points of the body are pairs of numbers.
WellFormed(body) ==
    /\ body.start.t = "object" /\ ~Malformed(body.start)
    /\ body.end.t = "object" /\ ~Malformed(body.end)

\* Every compute request received so far has a well-formed body.
AllWellFormed == \A q \in Req : IsCompute(q) => WellFormed(req[q].body)

\* C2: a compute request (with a well-formed body) answered 500 has not committed: its
\* transaction was rolled back or never began, whichever call failed.
C2_FailureMeansRolledBack ==
    \A r \in Req :
        (IsCompute(r) /\ WellFormed(req[r].body) /\ resp[r].status = 500)
            => xact[r].status # "committed"

\* C3: (all requests being well-formed) the committed content of a view was computed
\* from the start and the end of one query: its first and last point rows were inserted
\* by the same transaction and the refresh saw the rows of no other.
C3_ResultFromOneQuery ==
    AllWellFormed =>
        \A v \in Views :
            /\ mv[v].first.by = mv[v].last.by
            /\ Cardinality(mv[v].seen) <= 1

\* Request r writes the state of the algorithm of view v.
WritesAlgorithm(r, v) == IsReset(r) \/ ((IsCompute(r) \/ IsClear(r)) /\ RouteView(req[r].route) = v)

\* C4: two requests that write the same algorithm's state are never both between
\* their BEGIN and their COMMIT or ROLLBACK.
C4_WritersExclusive ==
    \A r1, r2 \in Req :
        (r1 # r2 /\ xact[r1].status = "open" /\ xact[r2].status = "open")
            => ~(\E v \in Views : WritesAlgorithm(r1, v) /\ WritesAlgorithm(r2, v))

\* The body gives two points that resolve to two nodes with no path between them.
Disconnected(body) ==
    LET s == MakePoint(ObjectValues(body.start))
        e == MakePoint(ObjectValues(body.end))
    IN /\ s # NullGeom
       /\ e # NullGeom
       /\ \A st \in SourceTarget(s, e) :
             st[1] # st[2] /\ PathEdges(st[1], st[2], FALSE) = <<>>

\* C5: a compute request between nodes that are not connected commits nothing and is
\* not answered as a success.
C5_DisconnectedNotCommitted ==
    \A r \in Req :
        (IsCompute(r) /\ Disconnected(req[r].body))
            => (xact[r].status # "committed" /\ resp[r].status # 200)

\* C6: a compute request whose body lacks start or end is answered 400 at once; it
\* acquires no client, begins no transaction, and no committed row or view comes from it.
C6_MissingPointAnswered400 ==
    \A r \in Req :
        (/\ IsCompute(r)
         /\ \/ req[r].body.start.t \in {"null", "undefined"}
            \/ req[r].body.end.t \in {"null", "undefined"})
            => /\ pc[r] = "done"
               /\ resp[r].status = 400
               /\ ~client[r]
               /\ xact[r] = NoXact
               /\ \A p \in points : p.by # r
               /\ \A v \in Views : r \notin mv[v].seen

\* C6 witness: a request without end has been answered 400 while the earlier points and
\* result are in place.
C6_Witness ==
    \E r \in Req :
        /\ IsCompute(r)
        /\ req[r].body.end.t = "undefined"
        /\ resp[r].status = 400
        /\ points = LeftoverPoints
        /\ mv = LeftoverViews

\* C7: a compute request whose start or end is malformed opens no transaction that
\* changes the state: it never commits.
C7_MalformedNeverCommits ==
    \A r \in Req :
        (IsCompute(r) /\ (Malformed(req[r].body.start) \/ Malformed(req[r].body.end)))
            => xact[r].status # "committed"

\* C8: reset-all is answered Success only if its transaction committed, and 500 when
\* it did not.
C8_ResetAnswersOutcome ==
    \A r \in Req :
        (IsReset(r) /\ pc[r] = "done")
            => /\ resp[r].status = 200 => xact[r].status = "committed"
               /\ xact[r].status # "committed" => resp[r].status = 500

\* C9: (all requests being well-formed) when reset-all's transaction ends, either it
\* commits and then there are no points and both views are empty, or nothing has changed.
C9_ResetAllOrNothing ==
    [][\A r \in Req :
         (AllWellFormed /\ IsReset(r) /\ xact[r].status = "open" /\ xact'[r].status # "open")
            => \/ /\ xact'[r].status = "committed"
                  /\ points' = {}
                  /\ \A v \in Views : mv'[v].edges = <<>>
               \/ /\ xact'[r].status = "aborted"
                  /\ points' = points
                  /\ mv' = mv]_vars

\* C10: (all requests being well-formed) when a clear request is answered Success
\* there are no points and the view of its algorithm is empty; when it fails, points
\* and views are unchanged.
C10_ClearEmptiesOrNothing ==
    [][\A r \in Req :
         (AllWellFormed /\ IsClear(r) /\ Steps(r) /\ pc'[r] = "done")
            => IF resp'[r].status = 200
               THEN /\ points' = {}
                    /\ mv'[RouteView(req[r].route)].edges = <<>>
               ELSE /\ points' = points
                    /\ mv' = mv]_vars

\* No request has a transaction open.
Quiescent == \A r \in Req : xact[r].status # "open"

\* Request r is the only one with a transaction open.
Alone(r) == \A q \in Req \ {r} : xact[q].status # "open"

OtherView(v) == IF v = "mv_short_path" THEN "mv_astar_path" ELSE "mv_short_path"

\* C11: (all requests being well-formed, and no two transactions open together) a step
\* of a compute or clear request for one algorithm leaves the other algorithm's stored
\* result as it is and leaves registered the query points that result was computed from.
C11_OwnSlotPerAlgorithm ==
    [][\A r \in Req :
         (AllWellFormed /\ (IsCompute(r) \/ IsClear(r)) /\ Steps(r) /\ Alone(r))
            => LET w == OtherView(RouteView(req[r].route))
               IN /\ mv'[w] = mv[w]
                  /\ mv[w].first \in points => mv[w].first \in points'
                  /\ mv[w].last \in points => mv[w].last \in points']_vars

\* C12: a client is released only by the handler that holds it and at most once, and
\* a handler that holds a client when it ends has released it exactly once: no
\* finished request has a client checked out.
C12_ClientReleasedOnce ==
    [][\A r \in Req :
         /\ released'[r] <= 1
         /\ released'[r] # released[r] => client[r]
         /\ pc'[r] = "done" => ~client'[r]
         /\ (client[r] /\ Steps(r) /\ pc'[r] = "done") => released'[r] = 1]_vars

\* C12 witness: an /astar-route request whose REFRESH failed has returned early from
\* the inner catch, and its client has been released once.
C12_Witness ==
    \E r \in Req :
        /\ pc[r] = "done"
        /\ resp[r] = Failure(500, "Failed to refresh mv_astar_path")
        /\ ~client[r]
        /\ released[r] = 1

\* C13: (all requests being well-formed) whenever no transaction is open, points holds
\* no row or exactly two rows, the start (lower id) and the end (higher id) of one
\* committed compute request (or of the earlier run).
C13_PointsNoneOrOneQuery ==
    (Quiescent /\ AllWellFormed) =>
        \/ points = {}
        \/ points = LeftoverPoints
        \/ \E r \in Req :
              /\ IsCompute(r)
              /\ xact[r].status = "committed"
              /\ Cardinality(points) = 2
              /\ \A p \in points : p.by = r
              /\ FirstRow(points).geom = MakePoint(ObjectValues(req[r].body.start))
              /\ LastRow(points).geom = MakePoint(ObjectValues(req[r].body.end))

\* The body gives two points that resolve to one and the same node.
SameNode(body) ==
    LET s == MakePoint(ObjectValues(body.start))
        e == MakePoint(ObjectValues(body.end))
    IN /\ s # NullGeom
       /\ e # NullGeom
       /\ \A st \in SourceTarget(s, e) : st[1] = st[2]

\* C14: (all requests being well-formed) a compute request whose start and end resolve
\* to the same node, when it is answered Success, is answered edgeCount 0 and
\* totalDistance 0.
C14_SameNodeZeroEdges ==
    \A r \in Req :
        (AllWellFormed /\ IsCompute(r) /\ SameNode(req[r].body) /\ resp[r].status = 200)
            => (resp[r].edgeCount = 0 /\ resp[r].totalDistance = 0)

\* obj[k] of a JavaScript object: undefined when it has no key k.
Get(obj, k) ==
    IF \E i \in 1..Len(obj.keys) : obj.keys[i] = k
    THEN obj.vals[CHOOSE i \in 1..Len(obj.keys) : obj.keys[i] = k]
    ELSE JUndefined

\* The point is in the interface format: an object with numbers lon and lat.
InterfaceFormat(v) == Get(v, "lon").t = "number" /\ Get(v, "lat").t = "number"

\* The point rows request r has inserted, committed or not.
RowsOf(r) == { p \in points \cup xact[r].ins : p.by = r }

\* C16: for a compute request whose points are {lon, lat}, the rows it registers have
\* x = lon and y = lat: its first row is the start, its second row the end.
C16_RegistersLonLat ==
    \A r \in Req :
        (/\ IsCompute(r)
         /\ InterfaceFormat(req[r].body.start)
         /\ InterfaceFormat(req[r].body.end))
            => /\ RowsOf(r) # {} =>
                    FirstRow(RowsOf(r)).geom =
                        Point(Get(req[r].body.start, "lon").n, Get(req[r].body.start, "lat").n)
               /\ Cardinality(RowsOf(r)) = 2 =>
                    LastRow(RowsOf(r)).geom =
                        Point(Get(req[r].body.end, "lon").n, Get(req[r].body.end, "lat").n)

\* Request r is waiting for a lock: its DELETE for a row another open transaction has
\* deleted, or its REFRESH for a view another open transaction has refreshed.
Waiting(r) ==
    \/ pc[r] = "delete_wait" /\ \E id \in snap[r].ids : RowLocked(r, id)
    \/ pc[r] \in {"refresh_wait", "refresh_astar_wait"} /\ ViewLocked(r, RefreshTarget(r))

\* C17: the requests that have a transaction open are never all waiting for a lock
\* (no deadlock), and every transaction that was begun is eventually committed or
\* rolled back: from some point on no request has a transaction open.
C17_EveryTransactionEnds ==
    /\ [](\A r \in Req : xact[r].status = "open" =>
                \E q \in Req : xact[q].status = "open" /\ ~Waiting(q))
    /\ <>[](\A r \in Req : xact[r].status # "open")

\* C17 witness: a request's DELETE is waiting for a row another request's open
\* transaction has deleted, and that transaction has refreshed a view.
C17_Witness ==
    \E r, q \in Req :
        /\ Waiting(r)
        /\ pc[r] = "delete_wait"
        /\ xact[q].status = "open"
        /\ DOMAIN xact[q].mvs # {}

\* C15: for a source and a target that are connected, the path pgr_dijkstra finds and
\* the path pgr_aStar finds have the same total cost.
C15_SameTotalCost ==
    (found.source # 0 /\ found.dijkstra # <<>>)
        => SumCosts(found.dijkstra) = SumCosts(found.astar)

\* C20: two nearest-node queries for the same point return the same node, and the node
\* a query returns is at the least distance from the point.
C20_SnappingDeterministic ==
    /\ \A i, j \in 1..Len(snapped) :
          snapped[i].geom = snapped[j].geom => snapped[i].node = snapped[j].node
    /\ \A i \in 1..Len(snapped) :
          \A n \in NodeIds :
              Distance2(NodeOf(snapped[i].node), snapped[i].geom)
                  <= Distance2(NodeOf(n), snapped[i].geom)

\* C22: (all requests being well-formed) the edgeCount and totalDistance of a compute
\* request's Success response are the number and the total cost of the edges of the
\* path that the request itself committed to its view.
C22_ResponseOfOwnCommit ==
    \A r \in Req :
        (AllWellFormed /\ IsCompute(r) /\ resp[r].status = 200)
            => /\ xact[r].status = "committed"
               /\ RouteView(req[r].route) \in DOMAIN xact[r].mvs
               /\ resp[r].edgeCount = Len(xact[r].mvs[RouteView(req[r].route)].edges)
               /\ resp[r].totalDistance = SumCosts(xact[r].mvs[RouteView(req[r].route)].edges)

\* C23: every request that has arrived is eventually answered, whichever call of its
\* handler fails.
C23_EveryRequestAnswered ==
    \A r \in Req : (pc[r] # "idle") ~> (resp[r].status # 0)

\* ST_DistanceSphere of one hundredth of a degree along the equator or a meridian, in
\* metres, rounded down (1111.95 m).
MetresPerUnit == 1111

\* ST_DistanceSphere between the nodes of PolarNodes, by their ids, in metres, rounded
\* down.
PolarDistance(i, j) ==
    CASE {i, j} = {1, 2} -> 58
      [] {i, j} = {2, 3} -> 58
      [] {i, j} = {1, 3} -> 116
      [] {i, j} = {1, 4} -> 1124
      [] {i, j} = {2, 4} -> 1114
      [] {i, j} = {3, 4} -> 1111
      [] OTHER -> 0

\* ST_DistanceSphere(a.geom, b.geom) in metres, rounded down: next to the equator the
\* length of the straight line from a to b, at 89.99 degrees north as tabulated.
SphereDistance(a, b) ==
    IF network_nodes = PolarNodes
    THEN PolarDistance(a.id, b.id)
    ELSE ISqrtBetween(MetresPerUnit * MetresPerUnit
                         * ((a.x - b.x) * (a.x - b.x) + (a.y - b.y) * (a.y - b.y)),
                      0, MetresPerUnit * (Abs(a.x - b.x) + Abs(a.y - b.y)))

\* C21: the total cost of a path found, by pgr_dijkstra or by pgr_aStar, is at least the
\* great-circle distance between its source and its target (costs are in hundredths
\* of a kilometre, ten metres each).
C21_CostAtLeastGreatCircle ==
    /\ found.dijkstra # <<>> =>
          10 * SumCosts(found.dijkstra) >= SphereDistance(NodeOf(found.source), NodeOf(found.target))
    /\ found.astar # <<>> =>
          10 * SumCosts(found.astar) >= SphereDistance(NodeOf(found.source), NodeOf(found.target))

\* The duplicates have been removed from network_nodes.
Deduplicated == stage \in {"deduplicated", "edges", "built"}

\* C18: once the duplicates have been removed, no two nodes are within the tolerance
\* of 0.0001 degree of each other.
C18_NoNodesWithinEpsilon ==
    Deduplicated =>
        \A n, m \in network_nodes :
            n # m => Dist2(NodeGeom(n), NodeGeom(m)) >= Epsilon * Epsilon

\* The nodes associated with line l: the nodes that lie on it.
Associated(l) == { n \in network_nodes : OnLine(NodeGeom(n), grid_lines[l]) }

\* Node b follows node a on line l: it is further along, with no node of the line
\* strictly between the two.
Consecutive(l, a, b) ==
    /\ LineLocatePoint(grid_lines[l], NodeGeom(a)) < LineLocatePoint(grid_lines[l], NodeGeom(b))
    /\ \A c \in Associated(l) :
          ~(/\ LineLocatePoint(grid_lines[l], NodeGeom(a)) < LineLocatePoint(grid_lines[l], NodeGeom(c))
            /\ LineLocatePoint(grid_lines[l], NodeGeom(c)) < LineLocatePoint(grid_lines[l], NodeGeom(b)))

\* The edges have been inserted into network_edges.
EdgesCreated == stage \in {"edges", "built"}

\* C19: once the edges are inserted, a line with k >= 2 associated nodes has given
\* k - 1 pairs and a line with fewer has given none, every pair is of two nodes of the
\* line that follow each other in the order of their fraction, the edges are the
\* pairs, one each, and the source and target of every edge are nodes.
C19_EdgePerConsecutivePair ==
    EdgesCreated =>
        LET node_pairs == NodePairs
        IN /\ \A l \in 1..Len(grid_lines) :
                /\ Cardinality({ p \in node_pairs : p.line_id = l }) =
                      IF Cardinality(Associated(l)) >= 2
                      THEN Cardinality(Associated(l)) - 1 ELSE 0
                /\ \A p \in node_pairs :
                      p.line_id = l =>
                          \E a, b \in Associated(l) :
                              a.id = p.source /\ b.id = p.target /\ Consecutive(l, a, b)
           /\ Cardinality(network_edges) = Cardinality(node_pairs)
           /\ \A p \in node_pairs :
                 \E e \in network_edges : e.source = p.source /\ e.target = p.target
           /\ \A e \in network_edges :
                 /\ \E p \in node_pairs : e.source = p.source /\ e.target = p.target
                 /\ \E n \in network_nodes : n.id = e.source
                 /\ \E n \in network_nodes : n.id = e.target

\* C19 witness: the edges are inserted for a table with a line of three or more
\* associated nodes and a line of fewer than two.
C19_Witness ==
    /\ EdgesCreated
    /\ network_edges # {}
    /\ \E l \in 1..Len(grid_lines) : Cardinality(Associated(l)) >= 3
    /\ \E l \in 1..Len(grid_lines) : Cardinality(Associated(l)) < 2

\* Call c of sendRouteRequest is in flight: made and not yet through its finally.
InFlight(c) == calls[c].at \notin {"idle", "done"}

\* C24: routeInfo is set to other than empty only by a call of sendRouteRequest that
\* ends and during which Clear was not pressed: a call in flight when Clear is pressed
\* never fills routeInfo again.
C24_ClearedStaysEmpty ==
    [][(routeInfo' # routeInfo /\ routeInfo' # NoRouteInfo)
          => \E c \in Calls : InFlight(c) /\ calls'[c].at = "done" /\ ~calls[c].cleared]_vars

\* C25: loading is true exactly while a call of sendRouteRequest is in flight.
C25_LoadingWhileInFlight == loading <=> \E c \in Calls : InFlight(c)

\* C26: start changes only in mode start and end only in mode end, by a step that sets
\* the mode to none; the mode goes to none only by such a step, which sets the point of
\* the mode to the place clicked and leaves the other; in mode none neither changes;
\* and sendRouteRequest sends its requests only when start and end are both set.
C26_OneShotSelection ==
    [][/\ start' # start => (selecting = "start" /\ selecting' = "null")
       /\ end' # end => (selecting = "end" /\ selecting' = "null")
       /\ (selecting = "start" /\ selecting' = "null") => (start' \in LatLngs /\ end' = end)
       /\ (selecting = "end" /\ selecting' = "null") => (end' \in LatLngs /\ start' = start)
       /\ selecting = "null" => (start' = start /\ end' = end)
       /\ \A c \in Calls : (calls[c].at = "idle" /\ calls'[c].at # "idle") => BothSet]_vars

\* C26 witness: start and end have been set by a click each, the mode is none again,
\* and a route request has been sent for them.
C26_Witness ==
    /\ start \in LatLngs
    /\ end \in LatLngs
    /\ start # end
    /\ selecting = "null"
    /\ selectingRef = "null"
    /\ \E c \in Calls : InFlight(c)

====
